---- MODULE Spec2Model ----
(***************************************************************************)
(* mpf-dev: the version store (current.txt, the legacy "current" symlink,  *)
(* the installed version directories), the dev config store (dev.json),    *)
(* the link registry operations and the environment composer.              *)
(*                                                                         *)
(* Strings are sequences of tokens: a token is one character or one fixed  *)
(* run of characters ("plugin-", "orders", "/", ...), so that starts_with, *)
(* format!, trim, join and replace are computed, not assumed.  An          *)
(* Option<T> is a sequence of length 0 (None) or 1 (Some).  The model is   *)
(* of the unix build (cfg(unix), cfg!(windows) = false).                   *)
(***************************************************************************)
EXTENDS Naturals, Sequences, FiniteSets, TLC

VARIABLES
    installed,   \* version directories that exist under the SDK root
    pointer,     \* Option: content of current.txt
    legacy,      \* Option: target version of the "current" symlink
    devFile,     \* Option: content of dev.json, a sequence of tokens
    last,        \* outcome of the last completed invocation
    pc,          \* concurrent invocations: position of each
    op,          \* concurrent invocations: the operation each runs
    mem,         \* concurrent invocations: the DevConfig each holds
    buf,         \* concurrent invocations: serialized content being written
    lastWriter   \* concurrent invocations: who completed fs::write last

vars == <<installed, pointer, legacy, devFile, last, pc, op, mem, buf, lastWriter>>

(***************************************************************************)
(* Bounds                                                                  *)
(***************************************************************************)
MaxComponents == 2

(***************************************************************************)
(* Option and string helpers                                               *)
(***************************************************************************)
None == <<>>

Some(x) == <<x>>

is_some(o) == Len(o) = 1

is_none(o) == Len(o) = 0

unwrap(o) == o[1]

\* Option::or
or(a, b) == IF is_some(a) THEN a ELSE b

starts_with(s, t) == Len(s) >= Len(t) /\ SubSeq(s, 1, Len(t)) = t

Whitespace == {" "}

RECURSIVE trim_start(_)
trim_start(s) == IF s # <<>> /\ Head(s) \in Whitespace THEN trim_start(Tail(s)) ELSE s

RECURSIVE trim_end(_)
trim_end(s) ==
    IF s # <<>> /\ s[Len(s)] \in Whitespace THEN trim_end(SubSeq(s, 1, Len(s) - 1)) ELSE s

\* str::trim
trim(s) == trim_end(trim_start(s))

\* [String]::join(sep)
RECURSIVE join(_, _)
join(list, sep) ==
    IF list = <<>> THEN <<>>
    ELSE IF Len(list) = 1 THEN list[1]
    ELSE list[1] \o sep \o join(Tail(list), sep)

\* str::replace(from, to): non-overlapping matches, left to right
RECURSIVE replace(_, _, _)
replace(s, from, to) ==
    IF s = <<>> THEN <<>>
    ELSE IF starts_with(s, from)
         THEN to \o replace(SubSeq(s, Len(from) + 1, Len(s)), from, to)
         ELSE <<Head(s)>> \o replace(Tail(s), from, to)

(***************************************************************************)
(* Paths (config.rs)                                                       *)
(***************************************************************************)
Slash == <<"/">>

\* PathBuf::join with a relative right-hand side
path_join(p, s) == p \o Slash \o s

is_absolute(p) == starts_with(p, Slash)

sdk_root == <<"~", "/", ".mpf-sdk">>

version_dir(version) == path_join(sdk_root, version)

dev_config_path == path_join(sdk_root, <<"dev.json">>)

current_pointer_path == path_join(sdk_root, <<"current.txt">>)

legacy_link_path == path_join(sdk_root, <<"current">>)

\* Path::file_name: the tokens after the last separator
RECURSIVE file_name(_)
file_name(p) ==
    IF p = <<>> THEN <<>>
    ELSE IF p[Len(p)] = "/" THEN <<>>
    ELSE file_name(SubSeq(p, 1, Len(p) - 1)) \o <<p[Len(p)]>>

\* Path::exists for a path under the SDK root: a version directory, or the
\* "current" symlink followed to its target
sdk_path_exists(p, inst, leg) ==
    \/ \E v \in inst : p = version_dir(v)
    \/ /\ p = legacy_link_path
       /\ is_some(leg)
       /\ \E v \in inst : unwrap(leg) = version_dir(v)

(***************************************************************************)
(* DevConfig and its serialized form (config.rs)                           *)
(***************************************************************************)
ComponentConfig(mode, lib, qml, plugin, headers, bin) ==
    [mode |-> mode, lib |-> lib, qml |-> qml, plugin |-> plugin,
     headers |-> headers, bin |-> bin]

NoConfig == ComponentConfig("none", None, None, None, None, None)

EmptyComponents == [k \in {} |-> NoConfig]

DevConfig(sdk_version, components) ==
    [sdk_version |-> sdk_version, components |-> components]

\* DevConfig::default
DevConfigDefault == DevConfig(None, EmptyComponents)

\* a variant the code does not take (C25 tells them apart): a map holding the new
\* entry alone
insert_alone(m, key, value) == [k \in {key} |-> value]

\* a variant the code does not take (C28 tells them apart): an existing entry
\* kept rather than replaced
insert_keep_existing(m, key, value) ==
    [k \in (DOMAIN m) \cup {key} |-> IF k \in DOMAIN m THEN m[k] ELSE value]

\* HashMap::insert
insert(m, key, value) == [k \in (DOMAIN m) \cup {key} |-> IF k = key THEN value ELSE m[k]]

\* a variant the code does not take (C27 tells them apart): the entry kept
remove_nothing(m, key) == m

\* HashMap::remove
remove(m, key) == [k \in (DOMAIN m) \ {key} |-> m[k]]

\* The orders in which a HashMap with the key set S may be iterated: the
\* hasher is seeded per process, so any order can occur.
IterationOrders(S) ==
    {o \in [1..Cardinality(S) -> S] : \A i, j \in 1..Cardinality(S) : o[i] = o[j] => i = j}

\* dev.json as a sequence of tokens: the sdk_version member, one member per
\* component in the order the map was iterated, and the closing brace.
SdkToken(v) == [k |-> "sdk", name |-> <<>>, sdk |-> v, cfg |-> NoConfig]

CompToken(n, c) == [k |-> "comp", name |-> n, sdk |-> None, cfg |-> c]

EndToken == [k |-> "end", name |-> <<>>, sdk |-> None, cfg |-> NoConfig]

\* serde_json::to_string_pretty(self) with the components iterated in `order`
to_string_pretty(config, order) ==
    <<SdkToken(config.sdk_version)>>
        \o [i \in 1..Len(order) |-> CompToken(order[i], config.components[order[i]])]
        \o <<EndToken>>

\* serde_json::from_str succeeds: one object, closed once, sdk_version at most once
well_formed(content) ==
    /\ Len(content) >= 1
    /\ content[Len(content)].k = "end"
    /\ \A i \in 1..(Len(content) - 1) : content[i].k # "end"
    /\ \A i, j \in 1..Len(content) : (content[i].k = "sdk" /\ content[j].k = "sdk") => i = j

\* serde_json::from_str: absent members take their defaults, a repeated
\* component key keeps its last value
from_str(content) ==
    LET sdkIdx == {i \in 1..Len(content) : content[i].k = "sdk"}
        compIdx == {i \in 1..Len(content) : content[i].k = "comp"}
        names == {content[i].name : i \in compIdx}
        lastOf(n) == CHOOSE i \in compIdx :
                        /\ content[i].name = n
                        /\ \A j \in compIdx : content[j].name = n => j <= i
    IN DevConfig(IF sdkIdx = {} THEN None ELSE content[CHOOSE i \in sdkIdx : TRUE].sdk,
                 [n \in names |-> content[lastOf(n)].cfg])

\* DevConfig::load: Ok(default) when the file is absent, Err when it does not parse
load(file) ==
    IF is_some(file)
    THEN IF well_formed(unwrap(file))
         THEN [ok |-> TRUE, config |-> from_str(unwrap(file))]
         ELSE [ok |-> FALSE, config |-> DevConfigDefault]
    ELSE [ok |-> TRUE, config |-> DevConfigDefault]

\* Result::unwrap_or_default
unwrap_or_default(r) == IF r.ok THEN r.config ELSE DevConfigDefault

\* fs::write(path, content) is File::create (open, truncate) then write_all
\* from offset 0; each can fail.
WriteOutcomes == {"ok", "open_failed", "write_failed"}

fs_write(file, content, outcome) ==
    CASE outcome = "ok" -> Some(content)
      [] outcome = "open_failed" -> file
      [] outcome = "write_failed" -> Some(<<>>)

(***************************************************************************)
(* Version store (config.rs)                                               *)
(***************************************************************************)
\* a variant the code does not take (C8 tells them apart): the legacy symlink consulted before current.txt
current_version_legacy_first(ptr, leg) ==
    IF is_some(leg) /\ file_name(unwrap(leg)) # <<>>
    THEN Some(file_name(unwrap(leg)))
    ELSE IF is_some(ptr) /\ trim(unwrap(ptr)) # <<>> THEN Some(trim(unwrap(ptr))) ELSE None

\* a variant the code does not take (C20 tells them apart): an empty current.txt
\* treated like an absent one
current_version_empty_as_absent(ptr, leg) ==
    IF is_some(ptr) /\ trim(unwrap(ptr)) # <<>>
    THEN Some(trim(unwrap(ptr)))
    ELSE IF is_some(leg) /\ file_name(unwrap(leg)) # <<>>
         THEN Some(file_name(unwrap(leg)))
         ELSE None

\* current_version
current_version(ptr, leg) ==
    IF is_some(ptr)
    THEN IF trim(unwrap(ptr)) # <<>> THEN Some(trim(unwrap(ptr))) ELSE None
    ELSE IF is_some(leg) /\ file_name(unwrap(leg)) # <<>>
         THEN Some(file_name(unwrap(leg)))
         ELSE None

\* current_link
current_link(ptr, leg) ==
    IF is_some(current_version(ptr, leg))
    THEN version_dir(unwrap(current_version(ptr, leg)))
    ELSE legacy_link_path

\* set_current_version, the symlink part: remove_file and symlink are both
\* best-effort (`let _ =`)
SymlinkOutcomes == {"ok", "create_failed", "remove_failed"}

symlink_update(leg, version, outcome) ==
    CASE outcome = "ok" -> Some(version_dir(version))
      [] outcome = "create_failed" -> None
      [] outcome = "remove_failed" -> IF is_some(leg) THEN leg ELSE Some(version_dir(version))

\* a variant the code does not take (C29 tells them apart): the symlink updated
\* and current.txt left alone
set_current_version_symlink_only(ptr, leg, version, wr, sym) ==
    [ok |-> TRUE, pointer |-> ptr, legacy |-> symlink_update(leg, version, sym)]

\* set_current_version: [ok, pointer, legacy] after the call
set_current_version(ptr, leg, version, wr, sym) ==
    IF wr = "ok"
    THEN [ok |-> TRUE, pointer |-> Some(version), legacy |-> symlink_update(leg, version, sym)]
    ELSE [ok |-> FALSE, pointer |-> fs_write(ptr, version, wr), legacy |-> leg]

(***************************************************************************)
(* The build outputs on disk, which the link operations probe and never    *)
(* change.  /b is a finished build in the CMake layout, /q is a Qt Creator *)
(* style build (executable at the root, no lib, no plugins/mpf, no qml),   *)
(* and ./c (under the working directory /w) has not been built yet.        *)
(***************************************************************************)
cwd == <<"/", "w">>

RootB == <<"/", "b">>

RootQ == <<"/", "q">>

RootC == <<".", "/", "c">>

host_exe == <<"mpf-host">>

BuildOutputs ==
    { RootB,
      path_join(RootB, <<"plugins">>),
      path_join(path_join(RootB, <<"plugins">>), <<"mpf">>),
      path_join(RootB, <<"qml">>),
      path_join(RootB, <<"lib">>),
      path_join(RootB, <<"include">>),
      path_join(RootB, <<"bin">>),
      path_join(path_join(RootB, <<"bin">>), host_exe),
      RootQ,
      path_join(RootQ, <<"plugins">>),
      path_join(RootQ, <<"bin">>),
      path_join(RootQ, host_exe),
      cwd }

(***************************************************************************)
(* Path normalization (commands.rs)                                        *)
(***************************************************************************)
\* Path::canonicalize of a path without symlinks or "..": every "." segment goes
RECURSIVE canonical(_)
canonical(p) ==
    IF replace(p, <<"/", ".", "/">>, Slash) = p THEN p
    ELSE canonical(replace(p, <<"/", ".", "/">>, Slash))

\* Path::exists for a build-output path
exists(p) == canonical(p) \in BuildOutputs

\* normalize_path
normalize_path(p) ==
    IF exists(p) THEN canonical(p)
    ELSE replace(replace(p, <<"\\", ".", "\\">>, <<"\\">>), <<"/", ".", "/">>, Slash)

\* `if build_path.is_absolute() { build_path } else { cwd.join(build_path) }`
absolute(p) == IF is_absolute(p) THEN p ELSE path_join(cwd, p)

(***************************************************************************)
(* Version normalization (commands.rs: setup, use_version)                 *)
(***************************************************************************)
\* a variant the code does not take (C17 tells them apart): the identifier kept as given
setup_version_as_given(version) == version

\* setup: `if version.starts_with('v') { version.clone() } else { format!("v{}", version) }`
setup_version_normalized(version) ==
    IF starts_with(version, <<"v">>) THEN version ELSE <<"v">> \o version

\* a variant the code does not take (C9 tells them apart): the marker prepended without looking
use_version_normalized_always_prefixed(version) == <<"v">> \o version

\* use_version: the same expression
use_version_normalized(version) ==
    IF starts_with(version, <<"v">>) THEN version ELSE <<"v">> \o version

(***************************************************************************)
(* Path derivation and the link registry (commands.rs)                     *)
(***************************************************************************)
PluginPrefix == <<"plugin-">>

\* a variant the code does not take (C13 tells them apart): the prefix added
\* without looking
link_plugin_component_name_always_prefixed(name) == PluginPrefix \o name

\* link_plugin: the key the component is stored under
link_plugin_component_name(name) ==
    IF starts_with(name, PluginPrefix) THEN name ELSE PluginPrefix \o name

\* a variant the code does not take (C14 tells them apart): plugins/mpf not probed
link_plugin_config_unprobed(path) ==
    LET abs_path == normalize_path(absolute(path))
    IN ComponentConfig("source",
                       Some(normalize_path(path_join(abs_path, <<"plugins">>))),
                       Some(normalize_path(path_join(abs_path, <<"qml">>))),
                       Some(normalize_path(abs_path)), None, None)

\* link_plugin: the derived ComponentConfig
link_plugin_config(path) ==
    LET abs_path == normalize_path(absolute(path))
        plugins_mpf_path == path_join(path_join(abs_path, <<"plugins">>), <<"mpf">>)
        lib_path == IF exists(plugins_mpf_path)
                    THEN normalize_path(plugins_mpf_path)
                    ELSE normalize_path(path_join(abs_path, <<"plugins">>))
        qml_path == normalize_path(path_join(abs_path, <<"qml">>))
        plugin_path == normalize_path(abs_path)
    IN ComponentConfig("source", Some(lib_path), Some(qml_path), Some(plugin_path), None, None)

\* a variant the code does not take (C23 tells them apart): the build root
\* itself never probed for the executable
host_bin_path_bin_only(abs_path) == normalize_path(path_join(abs_path, <<"bin">>))

\* link_host / link: the derived bin directory
host_bin_path(abs_path) ==
    IF exists(path_join(path_join(abs_path, <<"bin">>), host_exe))
    THEN normalize_path(path_join(abs_path, <<"bin">>))
    ELSE IF exists(path_join(abs_path, host_exe))
         THEN normalize_path(abs_path)
         ELSE normalize_path(path_join(abs_path, <<"bin">>))

\* link_host / link: the derived qml directory
host_qml_path(abs_path) ==
    IF exists(path_join(abs_path, <<"qml">>))
    THEN normalize_path(path_join(abs_path, <<"qml">>))
    ELSE normalize_path(abs_path)

\* link_host: the derived ComponentConfig
link_host_config(path) ==
    LET abs_path == normalize_path(absolute(path))
    IN ComponentConfig("source", None, Some(host_qml_path(abs_path)), None, None,
                       Some(host_bin_path(abs_path)))

\* link_component: the derived ComponentConfig
link_component_config(path) ==
    LET abs_path == normalize_path(absolute(path))
        lib_path == IF exists(path_join(abs_path, <<"lib">>))
                    THEN Some(normalize_path(path_join(abs_path, <<"lib">>)))
                    ELSE IF exists(path_join(abs_path, <<"bin">>))
                         THEN Some(normalize_path(path_join(abs_path, <<"bin">>)))
                         ELSE Some(normalize_path(abs_path))
        qml_path == IF exists(path_join(abs_path, <<"qml">>))
                    THEN Some(normalize_path(path_join(abs_path, <<"qml">>)))
                    ELSE None
        headers_path == IF exists(path_join(abs_path, <<"include">>))
                        THEN Some(normalize_path(path_join(abs_path, <<"include">>)))
                        ELSE None
    IN ComponentConfig("source", lib_path, qml_path, None, headers_path, None)

\* link: the `resolve` closure
resolve(p) == IF is_some(p) THEN Some(normalize_path(absolute(unwrap(p)))) ELSE None

\* link: (derived_lib, derived_qml) from --plugin
link_derived_plugin(plugin) ==
    IF is_some(plugin)
    THEN LET abs_plugin_root == normalize_path(absolute(unwrap(plugin)))
             plugins_mpf_path == path_join(path_join(abs_plugin_root, <<"plugins">>), <<"mpf">>)
             lib_path == IF exists(plugins_mpf_path)
                         THEN normalize_path(plugins_mpf_path)
                         ELSE normalize_path(path_join(abs_plugin_root, <<"plugins">>))
             qml_path == normalize_path(path_join(abs_plugin_root, <<"qml">>))
         IN [lib |-> Some(lib_path), qml |-> Some(qml_path)]
    ELSE [lib |-> None, qml |-> None]

\* link: (derived_bin, derived_host_qml) from --host
link_derived_host(host) ==
    IF is_some(host)
    THEN LET abs_host_root == normalize_path(absolute(unwrap(host)))
         IN [bin |-> Some(host_bin_path(abs_host_root)),
             qml |-> Some(host_qml_path(abs_host_root))]
    ELSE [bin |-> None, qml |-> None]

\* a variant the code does not take (C12 tells them apart): derived values
\* preferred to explicit ones
link_config_derived_first(lib, qml, plugin, headers, bin, host) ==
    LET dp == link_derived_plugin(plugin)
        dh == link_derived_host(host)
        final_lib == or(dp.lib, resolve(lib))
        final_qml == or(or(dp.qml, dh.qml), resolve(qml))
        final_bin == or(dh.bin, resolve(bin))
    IN ComponentConfig("source", final_lib, final_qml, resolve(plugin), resolve(headers),
                       final_bin)

\* a variant the code does not take (C22 tells them apart): the plugin-derived
\* qml preferred to the host-derived one
link_config_plugin_over_host(lib, qml, plugin, headers, bin, host) ==
    LET dp == link_derived_plugin(plugin)
        dh == link_derived_host(host)
        final_lib == or(resolve(lib), dp.lib)
        final_qml == or(or(resolve(qml), dp.qml), dh.qml)
        final_bin == or(resolve(bin), dh.bin)
    IN ComponentConfig("source", final_lib, final_qml, resolve(plugin), resolve(headers),
                       final_bin)

\* link: the stored ComponentConfig
link_config(lib, qml, plugin, headers, bin, host) ==
    LET dp == link_derived_plugin(plugin)
        dh == link_derived_host(host)
        final_lib == or(resolve(lib), dp.lib)
        final_qml == or(or(resolve(qml), dh.qml), dp.qml)
        final_bin == or(resolve(bin), dh.bin)
    IN ComponentConfig("source", final_lib, final_qml, resolve(plugin), resolve(headers),
                       final_bin)

\* a variant the code does not take (C5 tells them apart): unlink without the "plugin-" retry
unlink_match_exact_only(comps, component) ==
    IF component \in DOMAIN comps THEN Some(component) ELSE None

\* a variant the code does not take (C6 tells them apart): unlink trying the "plugin-" key before the exact one
unlink_match_prefix_first(comps, component) ==
    IF (PluginPrefix \o component) \in DOMAIN comps THEN Some(PluginPrefix \o component)
    ELSE IF component \in DOMAIN comps THEN Some(component)
    ELSE None

\* unlink: the key that is removed: the exact one, else the "plugin-" one
unlink_match(comps, component) ==
    IF component \in DOMAIN comps THEN Some(component)
    ELSE IF (PluginPrefix \o component) \in DOMAIN comps THEN Some(PluginPrefix \o component)
    ELSE None

\* a variant the code does not take (C7 tells them apart): the count taken after the map is cleared
unlink_all_count_after_clear(dev_config) ==
    [config |-> [dev_config EXCEPT !.components = EmptyComponents],
     save |-> TRUE, key |-> <<"all">>, count |-> Cardinality(DOMAIN EmptyComponents)]

\* unlink: `if component == "all"`
unlink_all(dev_config) ==
    [config |-> [dev_config EXCEPT !.components = EmptyComponents],
     save |-> TRUE, key |-> <<"all">>, count |-> Cardinality(DOMAIN dev_config.components)]

\* a variant the code does not take (C19 tells them apart): the config saved
\* even when nothing matched
unlink_config_always_saved(dev_config, component) ==
    LET comps == dev_config.components
        match == unlink_match(comps, component)
    IN IF component = <<"all">> THEN unlink_all(dev_config)
       ELSE IF is_some(match)
       THEN [config |-> [dev_config EXCEPT !.components = remove(comps, unwrap(match))],
             save |-> TRUE, key |-> unwrap(match), count |-> 1]
       ELSE [config |-> dev_config, save |-> TRUE, key |-> <<>>, count |-> 0]

\* unlink, after a successful load: the config to save (if any), the key
\* removed and the count reported
unlink_config(dev_config, component) ==
    LET comps == dev_config.components
        match == unlink_match(comps, component)
    IN IF component = <<"all">> THEN unlink_all(dev_config)
       ELSE IF is_some(match)
       THEN [config |-> [dev_config EXCEPT !.components = remove(comps, unwrap(match))],
             save |-> TRUE, key |-> unwrap(match), count |-> 1]
       ELSE [config |-> dev_config, save |-> FALSE, key |-> <<>>, count |-> 0]

(***************************************************************************)
(* Environment composer (commands.rs: build_env_paths)                     *)
(***************************************************************************)
RECURSIVE concat(_)
concat(ss) == IF ss = <<>> THEN <<>> ELSE Head(ss) \o concat(Tail(ss))

sep == <<":">>

NoEnv ==
    [sdk_root |-> <<>>, lib_path |-> <<>>, qml_path |-> <<>>, plugin_path |-> <<>>,
     mpf_plugin_path |-> <<>>, host_path |-> <<>>]

\* a variant the code does not take (C15 tells them apart): host and sdk not
\* set apart
is_plugin_component_any(name) == TRUE

\* build_env_paths: `if name != "host" && name != "sdk"`
is_plugin_component(name) == name # <<"host">> /\ name # <<"sdk">>

\* a variant the code does not take (C16 tells them apart): any component's bin
\* taken as the host override
is_host_component_any(name) == TRUE

\* build_env_paths: `if name == "host"`
is_host_component(name) == name = <<"host">>

\* a variant the code does not take (C1 tells them apart): the SDK path pushed before the source entries
with_sdk_first(source_paths, sdk_path) == <<sdk_path>> \o source_paths

\* build_env_paths: the source entries, then the SDK path as fallback
with_sdk_fallback(source_paths, sdk_path) == source_paths \o <<sdk_path>>

\* build_env_paths, iterating dev_config.components in `order`
build_env_paths(file, ptr, leg, inst, order) ==
    LET dev_config == unwrap_or_default(load(file))
        comps == dev_config.components
        sdk == current_link(ptr, leg)
        n == Len(order)
        source(i) == comps[order[i]].mode = "source"
        lib_paths ==
            with_sdk_fallback(
                concat([i \in 1..n |-> IF source(i) THEN comps[order[i]].lib ELSE <<>>]),
                path_join(sdk, <<"lib">>))
        qml_paths ==
            with_sdk_fallback(
                concat([i \in 1..n |-> IF source(i) THEN comps[order[i]].qml ELSE <<>>]),
                path_join(sdk, <<"qml">>))
        plugin_paths ==
            with_sdk_fallback(
                concat([i \in 1..n |-> IF source(i) THEN comps[order[i]].plugin ELSE <<>>]),
                path_join(sdk, <<"plugins">>))
        mpf_plugin_paths ==
            concat([i \in 1..n |->
                      IF source(i) /\ is_plugin_component(order[i])
                      THEN comps[order[i]].lib ELSE <<>>])
        host_bin_overrides ==
            concat([i \in 1..n |->
                      IF source(i) /\ is_host_component(order[i])
                      THEN comps[order[i]].bin ELSE <<>>])
        host_path ==
            IF host_bin_overrides # <<>>
            THEN path_join(host_bin_overrides[Len(host_bin_overrides)], host_exe)
            ELSE path_join(path_join(sdk, <<"bin">>), host_exe)
    IN IF ~sdk_path_exists(sdk, inst, leg)
       THEN [ok |-> FALSE, env |-> NoEnv]
       ELSE [ok |-> TRUE,
             env |-> [sdk_root |-> sdk,
                      lib_path |-> join(lib_paths, sep),
                      qml_path |-> join(qml_paths, sep),
                      plugin_path |-> join(plugin_paths, sep),
                      mpf_plugin_path |-> join(mpf_plugin_paths, sep),
                      host_path |-> host_path]]

(***************************************************************************)
(* Inputs                                                                  *)
(***************************************************************************)
V1 == <<"v", "1">>

\* the version arguments given to setup and use: in Spec, and in SpecVersion
VersionArgs == { <<"1">>, <<"v", "1">> }

WideVersionArgs == { <<"1">>, <<"v", "1">>, <<"v", "1", " ">>, <<"2">> }

\* the tags fetch_latest_version may return
LatestTags == { <<"1">> }

\* Spec runs every operation over a few names and one build root; SpecLink
\* runs the link registry and the composer over more names and roots with
\* the version store fixed.
PluginNames == { <<"orders">> }

ComponentNames == { <<"orders">> }

ManualNames == { <<"host">> }

UnlinkNames == { <<"orders">>, <<"all">> }

PathArgs == { RootB }

ManualArgs ==
    { [lib |-> None, qml |-> None, plugin |-> None, headers |-> None,
       bin |-> Some(<<"/", "x", "/", "bin">>)] }

LinkPluginNames == { <<"orders">>, <<"all">>, <<"plugin-", "orders">> }

LinkComponentNames == { <<"orders">>, <<"all">>, <<"sdk">> }

LinkManualNames == { <<"host">>, <<"orders">> }

LinkUnlinkNames == { <<"orders">>, <<"all">>, <<"host">>, <<"sdk">>, <<"plugin-", "orders">> }

LinkPathArgs == { RootB, RootC }

LinkHostPathArgs == { RootB, RootQ, RootC }

LinkManualArgs ==
    { [lib |-> Some(<<"/", "x", "/", "lib">>), qml |-> None, plugin |-> Some(RootB),
       headers |-> None, bin |-> None],
      [lib |-> None, qml |-> None, plugin |-> None, headers |-> None,
       bin |-> Some(<<"/", "x", "/", "bin">>)] }

(***************************************************************************)
(* State machine: one action per CLI invocation, run to completion         *)
(***************************************************************************)
Last(o, arg, status, key, count, env) ==
    [op |-> o, arg |-> arg, status |-> status, key |-> key, count |-> count, env |-> env,
     path |-> <<>>]

\* a link operation given a build root
LastLink(o, arg, path, status, key) ==
    [Last(o, arg, status, key, 0, None) EXCEPT !.path = path]

Procs == {1, 2}

\* what a concurrent invocation runs
Invocation(kind, name, path, version) ==
    [kind |-> kind, name |-> name, path |-> path, version |-> version]

NoInvocation == Invocation("none", <<>>, <<>>, <<>>)

Idle ==
    /\ pc = [p \in Procs |-> "idle"]
    /\ op = [p \in Procs |-> NoInvocation]
    /\ mem = [p \in Procs |-> DevConfigDefault]
    /\ buf = [p \in Procs |-> <<>>]
    /\ lastWriter = 0

\* a fresh machine, or one set up by an older release (symlink, no current.txt)
Init ==
    /\ \/ installed = {} /\ legacy = None
       \/ installed = {V1} /\ legacy = Some(version_dir(V1))
    /\ pointer = None
    /\ devFile = None
    /\ last = Last("none", <<>>, "Ok", <<>>, 0, None)
    /\ Idle

Sequential == UNCHANGED <<pc, op, mem, buf, lastWriter>>

\* DevConfig::save with the map iterated in some order and fs::write ending `wr`
Saved(file, config, wr) ==
    {fs_write(file, to_string_pretty(config, order), wr) :
        order \in IterationOrders(DOMAIN config.components)}

WriteStatus(wr) == IF wr = "ok" THEN "Ok" ELSE "IOError"

\* link_plugin
LinkPlugin(names, paths) ==
    \E name \in names, path \in paths, wr \in WriteOutcomes :
        LET dev_config == unwrap_or_default(load(devFile))
            component_name == link_plugin_component_name(name)
            linked == [dev_config EXCEPT !.components =
                          insert(@, component_name, link_plugin_config(path))]
        IN /\ Cardinality(DOMAIN linked.components) <= MaxComponents
           /\ devFile' \in Saved(devFile, linked, wr)
           /\ last' = LastLink("link_plugin", name, path, WriteStatus(wr), component_name)
           /\ UNCHANGED <<installed, pointer, legacy>>
           /\ Sequential

\* link_host
LinkHost(paths) ==
    \E path \in paths, wr \in WriteOutcomes :
        LET dev_config == unwrap_or_default(load(devFile))
            linked == [dev_config EXCEPT !.components =
                          insert(@, <<"host">>, link_host_config(path))]
        IN /\ Cardinality(DOMAIN linked.components) <= MaxComponents
           /\ devFile' \in Saved(devFile, linked, wr)
           /\ last' = LastLink("link_host", <<"host">>, path, WriteStatus(wr), <<"host">>)
           /\ UNCHANGED <<installed, pointer, legacy>>
           /\ Sequential

\* link_component
LinkComponent(names, paths) ==
    \E name \in names, path \in paths, wr \in WriteOutcomes :
        LET dev_config == unwrap_or_default(load(devFile))
            linked == [dev_config EXCEPT !.components =
                          insert(@, name, link_component_config(path))]
        IN /\ Cardinality(DOMAIN linked.components) <= MaxComponents
           /\ devFile' \in Saved(devFile, linked, wr)
           /\ last' = LastLink("link_component", name, path, WriteStatus(wr), name)
           /\ UNCHANGED <<installed, pointer, legacy>>
           /\ Sequential

\* link_action, LinkAction::Manual: link(name, lib, qml, plugin, headers, bin, None)
LinkManual(names, args) ==
    \E name \in names, a \in args, wr \in WriteOutcomes :
        LET dev_config == unwrap_or_default(load(devFile))
            comp_config == link_config(a.lib, a.qml, a.plugin, a.headers, a.bin, None)
            linked == [dev_config EXCEPT !.components = insert(@, name, comp_config)]
        IN /\ Cardinality(DOMAIN linked.components) <= MaxComponents
           /\ devFile' \in Saved(devFile, linked, wr)
           /\ last' = Last("link", a, WriteStatus(wr), name, 0, None)
           /\ UNCHANGED <<installed, pointer, legacy>>
           /\ Sequential

\* unlink
Unlink(names) ==
    \E component \in names :
        LET loaded == load(devFile)
            u == unlink_config(loaded.config, component)
        IN /\ \/ /\ ~loaded.ok
                 /\ devFile' = devFile
                 /\ last' = Last("unlink", component, "ParseError", <<>>, 0, None)
              \/ /\ loaded.ok
                 /\ ~u.save
                 /\ devFile' = devFile
                 /\ last' = Last("unlink", component, "Ok", <<>>, 0, None)
              \/ /\ loaded.ok
                 /\ u.save
                 /\ \E wr \in WriteOutcomes :
                      /\ devFile' \in Saved(devFile, u.config, wr)
                      /\ last' = Last("unlink", component, WriteStatus(wr), u.key,
                                      IF wr = "ok" THEN u.count ELSE 0, None)
           /\ UNCHANGED <<installed, pointer, legacy>>
           /\ Sequential

\* a variant the code does not take (C10 tells them apart): the existence check skipped
version_dir_exists_unchecked(version, inst) == TRUE

\* use_version: `version_dir.exists()`
version_dir_exists(version, inst) == sdk_path_exists(version_dir(version), inst, None)

\* use_version
UseVersion(versions) ==
    \E version \in versions :
        LET version_normalized == use_version_normalized(version)
        IN /\ \/ /\ ~version_dir_exists(version_normalized, installed)
                 /\ last' = Last("use", version, "NotFound", version_normalized, 0, None)
                 /\ UNCHANGED <<pointer, legacy, devFile>>
              \/ /\ version_dir_exists(version_normalized, installed)
                 /\ \E wr \in WriteOutcomes :
                     \E sym \in IF wr = "ok" THEN SymlinkOutcomes ELSE {"ok"} :
                      LET set == set_current_version(pointer, legacy, version_normalized,
                                                     wr, sym)
                          dev_config == [unwrap_or_default(load(devFile))
                                           EXCEPT !.sdk_version = Some(version_normalized)]
                      IN /\ pointer' = set.pointer
                         /\ legacy' = set.legacy
                         /\ \/ /\ ~set.ok
                               /\ devFile' = devFile
                               /\ last' = Last("use", version, "PointerIOError", version_normalized, 0, None)
                            \/ /\ set.ok
                               /\ \E wr2 \in WriteOutcomes :
                                    /\ devFile' \in Saved(devFile, dev_config, wr2)
                                    /\ last' = Last("use", version, WriteStatus(wr2),
                                                    version_normalized, 0, None)
           /\ UNCHANGED installed
           /\ Sequential

\* fetch_latest_version and download_and_extract: the external collaborators
FetchOutcomes == {"ok", "fetch_failed"}

DownloadOutcomes == {"ok", "download_failed", "extract_failed", "cleanup_failed"}

\* a variant the code does not take (C21 tells them apart): nothing unpacked
download_and_extract_nothing(inst, version, outcome) == inst

\* download_and_extract: the version directories afterwards.  fs::create_dir_all(dest)
\* runs before the archive is unpacked, so only a failed download leaves none.
download_and_extract(inst, version, outcome) ==
    IF outcome = "download_failed" THEN inst ELSE inst \cup {version}

\* setup; the count observed is the number of downloads it started
Setup(versions, tags) ==
    \E given \in {None} \cup {Some(v) : v \in versions} :
      \E fetch \in IF is_some(given) THEN {"ok"} ELSE FetchOutcomes :
        \/ /\ fetch = "fetch_failed"
           /\ last' = Last("setup", <<>>, "FetchError", <<>>, 0, None)
           /\ UNCHANGED <<installed, pointer, legacy, devFile>>
           /\ Sequential
        \/ /\ fetch = "ok"
           /\ \E version \in IF is_some(given) THEN {unwrap(given)} ELSE tags :
                LET version_normalized == setup_version_normalized(version)
                    already == sdk_path_exists(version_dir(version_normalized), installed, None)
                IN \E dl \in IF already THEN {"ok"} ELSE DownloadOutcomes :
                     \/ /\ dl # "ok"
                        /\ installed' = download_and_extract(installed, version_normalized, dl)
                        /\ last' = Last("setup", version, "DownloadError", version_normalized, 1, None)
                        /\ UNCHANGED <<pointer, legacy, devFile>>
                     \/ /\ dl = "ok"
                        /\ installed' = IF already THEN installed
                                        ELSE download_and_extract(installed, version_normalized, dl)
                        /\ \E wr \in WriteOutcomes :
                            \E sym \in IF wr = "ok" THEN SymlinkOutcomes ELSE {"ok"} :
                             LET set == set_current_version(pointer, legacy, version_normalized,
                                                            wr, sym)
                                 config == [unwrap_or_default(load(devFile))
                                              EXCEPT !.sdk_version = Some(version_normalized)]
                             IN /\ pointer' = set.pointer
                                /\ legacy' = set.legacy
                                /\ \/ /\ ~set.ok
                                      /\ devFile' = devFile
                                      /\ last' = Last("setup", version, "PointerIOError",
                                                      version_normalized,
                                                      IF already THEN 0 ELSE 1, None)
                                   \/ /\ set.ok
                                      /\ \E wr2 \in WriteOutcomes :
                                           /\ devFile' \in Saved(devFile, config, wr2)
                                           /\ last' = Last("setup", version, WriteStatus(wr2),
                                                           version_normalized,
                                                           IF already THEN 0 ELSE 1, None)
           /\ Sequential

\* installed_versions
installed_versions(inst) ==
    {v \in inst : starts_with(v, <<"v">>) \/ (v # <<>> /\ Head(v) \in {"0", "1", "2"})}

\* versions
Versions ==
    /\ last' = Last("versions", <<>>, "Ok", <<>>, Cardinality(installed_versions(installed)), None)
    /\ UNCHANGED <<installed, pointer, legacy, devFile>>
    /\ Sequential

\* status
Status ==
    /\ last' = Last("status", <<>>, "Ok", <<>>,
                    Cardinality(DOMAIN unwrap_or_default(load(devFile)).components), None)
    /\ UNCHANGED <<installed, pointer, legacy, devFile>>
    /\ Sequential

\* env_vars / run: build_env_paths
BuildEnvPaths ==
    \E order \in IterationOrders(DOMAIN unwrap_or_default(load(devFile)).components) :
        LET r == build_env_paths(devFile, pointer, legacy, installed, order)
        IN /\ last' = Last("env", <<>>, IF r.ok THEN "Ok" ELSE "NotConfigured", <<>>, 0,
                           IF r.ok THEN Some(r.env) ELSE None)
           /\ UNCHANGED <<installed, pointer, legacy, devFile>>
           /\ Sequential

\* the user deletes an installed version's directory
RemoveVersionDir ==
    \E v \in installed :
        /\ installed' = installed \ {v}
        /\ last' = Last("rm", <<>>, "Ok", v, 0, None)
        /\ UNCHANGED <<pointer, legacy, devFile>>
        /\ Sequential

Next ==
    \/ Setup(VersionArgs, LatestTags)
    \/ UseVersion(VersionArgs)
    \/ Versions
    \/ LinkPlugin(PluginNames, PathArgs)
    \/ LinkHost(PathArgs)
    \/ LinkComponent(ComponentNames, PathArgs)
    \/ LinkManual(ManualNames, ManualArgs)
    \/ Unlink(UnlinkNames)
    \/ Status
    \/ BuildEnvPaths
    \/ RemoveVersionDir

Spec == Init /\ [][Next]_vars

\* The link registry and the composer with version v1 installed and current
InitLink ==
    /\ installed = {V1}
    /\ pointer = Some(V1)
    /\ legacy = Some(version_dir(V1))
    /\ devFile = None
    /\ last = Last("none", <<>>, "Ok", <<>>, 0, None)
    /\ Idle

NextLink ==
    \/ LinkPlugin(LinkPluginNames, LinkPathArgs)
    \/ LinkHost(LinkHostPathArgs)
    \/ LinkComponent(LinkComponentNames, LinkPathArgs)
    \/ LinkManual(LinkManualNames, LinkManualArgs)
    \/ Unlink(LinkUnlinkNames)
    \/ Status
    \/ BuildEnvPaths

SpecLink == InitLink /\ [][NextLink]_vars

\* The version store and the composer, with no component linked
NextVersion ==
    \/ Setup(WideVersionArgs, LatestTags)
    \/ UseVersion(WideVersionArgs)
    \/ Versions
    \/ BuildEnvPaths
    \/ RemoveVersionDir

SpecVersion == Init /\ [][NextVersion]_vars

\* link with explicit values next to a --plugin hint, among plugins linked
\* from the same build root
PrecedenceManualArgs ==
    { [lib |-> Some(<<"/", "x", "/", "lib">>), qml |-> None, plugin |-> Some(RootB),
       headers |-> None, bin |-> None],
      [lib |-> None, qml |-> Some(<<"/", "x", "/", "qml">>), plugin |-> Some(RootB),
       headers |-> None, bin |-> None],
      [lib |-> None, qml |-> None, plugin |-> Some(RootC), headers |-> None,
       bin |-> Some(<<"/", "x", "/", "bin">>)] }

NextManual ==
    \/ LinkManual(LinkManualNames, PrecedenceManualArgs)
    \/ LinkPlugin(PluginNames, PathArgs)
    \/ Unlink(UnlinkNames)
    \/ BuildEnvPaths

SpecManual == InitLink /\ [][NextManual]_vars

\* link called with every kind of argument, the --host build root included
LinkArgs ==
    { [lib |-> Some(<<"/", "x", "/", "lib">>), qml |-> None, plugin |-> Some(RootB),
       headers |-> None, bin |-> None, host |-> None],
      [lib |-> None, qml |-> None, plugin |-> Some(RootB), headers |-> None,
       bin |-> None, host |-> Some(RootQ)],
      [lib |-> None, qml |-> Some(<<"/", "x", "/", "qml">>), plugin |-> Some(RootQ),
       headers |-> None, bin |-> None, host |-> Some(RootB)],
      [lib |-> None, qml |-> None, plugin |-> None,
       headers |-> Some(<<"/", "x", "/", "include">>),
       bin |-> Some(<<"/", "x", "/", "bin">>), host |-> Some(RootB)] }

\* link(component, lib, qml, plugin, headers, bin, host)
Link(names, args) ==
    \E name \in names, a \in args, wr \in WriteOutcomes :
        LET dev_config == unwrap_or_default(load(devFile))
            comp_config == link_config(a.lib, a.qml, a.plugin, a.headers, a.bin, a.host)
            linked == [dev_config EXCEPT !.components = insert(@, name, comp_config)]
        IN /\ Cardinality(DOMAIN linked.components) <= MaxComponents
           /\ devFile' \in Saved(devFile, linked, wr)
           /\ last' = Last("link", a, WriteStatus(wr), name, 0, None)
           /\ UNCHANGED <<installed, pointer, legacy>>
           /\ Sequential

NextLinkCall ==
    \/ Link(LinkManualNames, LinkArgs)
    \/ Unlink(UnlinkNames)
    \/ BuildEnvPaths

SpecLinkCall == InitLink /\ [][NextLinkCall]_vars

(***************************************************************************)
(* Two invocations at once.  Each is a process of its own: it loads        *)
(* dev.json, changes its copy, serializes it and writes it back with       *)
(* fs::write, which opens the file truncating it and then writes the bytes *)
(* from offset 0.  Nothing is locked, so the steps of the two interleave.  *)
(***************************************************************************)
ConcurrentInvocations ==
    { Invocation("link_component", <<"orders">>, RootB, <<>>),
      Invocation("link_component", <<"all">>, RootC, <<>>),
      Invocation("use", <<>>, <<>>, <<"1">>) }

\* write_all from offset 0 into a file that holds `content`
write_at_start(content, bytes) ==
    IF Len(content) > Len(bytes)
    THEN bytes \o SubSeq(content, Len(bytes) + 1, Len(content))
    ELSE bytes

InitConc ==
    /\ installed = {V1}
    /\ pointer \in {None, Some(V1)}
    /\ legacy = None
    /\ devFile \in {None,
                    Some(to_string_pretty(
                        DevConfig(None, insert(EmptyComponents, <<"sdk">>,
                                               link_component_config(RootB))),
                        <<(<<"sdk">>)>>))}
    /\ last = Last("none", <<>>, "Ok", <<>>, 0, None)
    /\ Idle

\* the invocation starts: link_component goes straight to DevConfig::load,
\* use_version first checks the version directory and sets the pointer
Start(p) ==
    /\ pc[p] = "idle"
    /\ \E i \in ConcurrentInvocations :
         /\ op' = [op EXCEPT ![p] = i]
         /\ pc' = [pc EXCEPT ![p] = IF i.kind = "use" THEN "set" ELSE "load"]
    /\ UNCHANGED <<installed, pointer, legacy, devFile, last, mem, buf, lastWriter>>

\* use_version: set_current_version
SetCurrent(p) ==
    /\ pc[p] = "set"
    /\ LET version_normalized == use_version_normalized(op[p].version)
           set == set_current_version(pointer, legacy, version_normalized, "ok", "ok")
       IN /\ version_dir_exists(version_normalized, installed)
          /\ pointer' = set.pointer
          /\ legacy' = set.legacy
    /\ pc' = [pc EXCEPT ![p] = "load"]
    /\ UNCHANGED <<installed, devFile, last, op, mem, buf, lastWriter>>

\* DevConfig::load().unwrap_or_default(), then the change in memory
Load(p) ==
    /\ pc[p] = "load"
    /\ LET dev_config == unwrap_or_default(load(devFile))
       IN mem' = [mem EXCEPT ![p] =
                    IF op[p].kind = "use"
                    THEN [dev_config EXCEPT
                            !.sdk_version = Some(use_version_normalized(op[p].version))]
                    ELSE [dev_config EXCEPT
                            !.components = insert(@, op[p].name,
                                                  link_component_config(op[p].path))]]
    /\ pc' = [pc EXCEPT ![p] = "save"]
    /\ UNCHANGED <<installed, pointer, legacy, devFile, last, op, buf, lastWriter>>

\* DevConfig::save: serde_json::to_string_pretty, then fs::write opens the file
Open(p) ==
    /\ pc[p] = "save"
    /\ \E order \in IterationOrders(DOMAIN mem[p].components) :
         buf' = [buf EXCEPT ![p] = to_string_pretty(mem[p], order)]
    /\ devFile' = Some(<<>>)
    /\ pc' = [pc EXCEPT ![p] = "write"]
    /\ UNCHANGED <<installed, pointer, legacy, last, op, mem, lastWriter>>

\* DevConfig::save: fs::write writes the bytes
Write(p) ==
    /\ pc[p] = "write"
    /\ devFile' = Some(write_at_start(unwrap(devFile), buf[p]))
    /\ lastWriter' = p
    /\ pc' = [pc EXCEPT ![p] = "done"]
    /\ UNCHANGED <<installed, pointer, legacy, last, op, mem, buf>>

NextConc == \E p \in Procs : Start(p) \/ SetCurrent(p) \/ Load(p) \/ Open(p) \/ Write(p)

SpecConc == InitConc /\ [][NextConc]_vars

(***************************************************************************)
(* Helpers for the properties                                              *)
(***************************************************************************)
\* str::split(sep): the entries of a joined search path
RECURSIVE split(_, _)
split(str, separator) ==
    IF \E i \in 1..Len(str) : str[i] = separator
    THEN LET i == CHOOSE k \in 1..Len(str) :
                      str[k] = separator /\ \A j \in 1..(k - 1) : str[j] # separator
         IN <<SubSeq(str, 1, i - 1)>> \o split(SubSeq(str, i + 1, Len(str)), separator)
    ELSE <<str>>

\* the DevConfig an invocation would load now
Config == unwrap_or_default(load(devFile))

Malformed(file) == is_some(file) /\ ~well_formed(unwrap(file))

\* the last invocation composed an environment
Composed == last.op = "env" /\ last.status = "Ok"

\* `path` occurs in the joined search path `joined` before its last entry
BeforeLast(path, joined) ==
    \E i \in 1..(Len(split(joined, ":")) - 1) : split(joined, ":")[i] = path

LastEntry(joined) == split(joined, ":")[Len(split(joined, ":"))]

(***************************************************************************)
(* C1: in every composed environment, on each of the lib, qml and plugin   *)
(* search paths, every path of a Source-mode component stands before the   *)
(* SDK entry (sdk/lib, sdk/qml, sdk/plugins), and the SDK entry is the     *)
(* last one.                                                               *)
(***************************************************************************)
C1_SdkBaselineLast ==
    Composed =>
        LET env == unwrap(last.env)
            comps == Config.components
        IN /\ LastEntry(env.lib_path) = path_join(env.sdk_root, <<"lib">>)
           /\ LastEntry(env.qml_path) = path_join(env.sdk_root, <<"qml">>)
           /\ LastEntry(env.plugin_path) = path_join(env.sdk_root, <<"plugins">>)
           /\ \A k \in DOMAIN comps :
                comps[k].mode = "source" =>
                    /\ is_some(comps[k].lib) => BeforeLast(unwrap(comps[k].lib), env.lib_path)
                    /\ is_some(comps[k].qml) => BeforeLast(unwrap(comps[k].qml), env.qml_path)
                    /\ is_some(comps[k].plugin) =>
                           BeforeLast(unwrap(comps[k].plugin), env.plugin_path)

C1_Witness ==
    /\ Composed
    /\ \E k \in DOMAIN Config.components :
         /\ is_some(Config.components[k].lib)
         /\ is_some(Config.components[k].qml)
         /\ is_some(Config.components[k].plugin)
    /\ Cardinality(DOMAIN Config.components) = 2

(***************************************************************************)
(* C2: build_env_paths fails with NotConfigured when current_version()     *)
(* gives no version and when it gives a version whose directory does not   *)
(* exist.                                                                  *)
(***************************************************************************)
C2_NotConfiguredWithoutCurrent ==
    last.op = "env" =>
        LET current == current_version(pointer, legacy)
        IN (is_none(current) \/ unwrap(current) \notin installed)
               => last.status = "NotConfigured"

(***************************************************************************)
(* C3: with a malformed dev.json, no mutating operation that reads it      *)
(* succeeds or rewrites the file: the link operations and unlink end with  *)
(* a ParseError, setup and use do not end Ok, and dev.json stays as it is. *)
(***************************************************************************)
C3_MalformedNeverOverwritten ==
    [][Malformed(devFile) =>
          /\ last'.op \in {"link_plugin", "link_host", "link_component", "link", "unlink"}
                => (last'.status = "ParseError" /\ devFile' = devFile)
          /\ last'.op \in {"use", "setup"}
                => (last'.status # "Ok" /\ devFile' = devFile)]_vars

(***************************************************************************)
(* C5: when the mapping holds "plugin-"+n and not n, unlink(n) succeeds    *)
(* and removes exactly the entry "plugin-"+n.  Stated for every n:         *)
(***************************************************************************)
UnlinkFallbackCase ==
    /\ last'.op = "unlink"
    /\ last'.status # "IOError"
    /\ load(devFile).ok
    /\ (PluginPrefix \o last'.arg) \in DOMAIN Config.components
    /\ last'.arg \notin DOMAIN Config.components

UnlinkFallbackEffect ==
    /\ last'.status = "Ok"
    /\ load(devFile').ok
    /\ Config'.components = remove(Config.components, PluginPrefix \o last'.arg)

C5_UnlinkFallbackEveryName == [][UnlinkFallbackCase => UnlinkFallbackEffect]_vars

\* C5, for every name n other than the wildcard "all": unlink(n) removes exactly
\* the entry "plugin-"+n when the mapping holds it and not n
C5_UnlinkFallback ==
    [][(UnlinkFallbackCase /\ last'.arg # <<"all">>) => UnlinkFallbackEffect]_vars

C5_Witness ==
    /\ last.op = "unlink"
    /\ last.status = "Ok"
    /\ last.arg = <<"orders">>
    /\ last.key = PluginPrefix \o last.arg
    /\ DOMAIN Config.components = {<<"all">>}

(***************************************************************************)
(* C6: when the mapping holds both n and "plugin-"+n, unlink(n) removes    *)
(* only the entry n and leaves "plugin-"+n in place.  Stated for every n:  *)
(***************************************************************************)
UnlinkExactCase ==
    /\ last'.op = "unlink"
    /\ last'.status # "IOError"
    /\ load(devFile).ok
    /\ (PluginPrefix \o last'.arg) \in DOMAIN Config.components
    /\ last'.arg \in DOMAIN Config.components

UnlinkExactEffect ==
    /\ load(devFile').ok
    /\ Config'.components = remove(Config.components, last'.arg)

C6_UnlinkExactFirstEveryName == [][UnlinkExactCase => UnlinkExactEffect]_vars

\* C6, for every name n other than the wildcard "all": unlink(n) removes only
\* the entry n when the mapping holds both n and "plugin-"+n
C6_UnlinkExactFirst ==
    [][(UnlinkExactCase /\ last'.arg # <<"all">>) => UnlinkExactEffect]_vars

C6_Witness ==
    /\ last.op = "unlink"
    /\ last.status = "Ok"
    /\ last.arg = <<"orders">>
    /\ last.key = <<"orders">>
    /\ DOMAIN Config.components = {<<"plugin-", "orders">>}

(***************************************************************************)
(* C7: a successful unlink("all") leaves the persisted mapping empty,      *)
(* reports the number of entries there were, and keeps sdk_version.        *)
(***************************************************************************)
C7_UnlinkAll ==
    [][(last'.op = "unlink" /\ last'.arg = <<"all">> /\ last'.status = "Ok") =>
          /\ load(devFile').ok
          /\ Config'.components = EmptyComponents
          /\ Config'.sdk_version = Config.sdk_version
          /\ last'.count = Cardinality(DOMAIN Config.components)]_vars

C7_Witness ==
    /\ last.op = "unlink"
    /\ last.arg = <<"all">>
    /\ last.status = "Ok"
    /\ last.count = 2
    /\ Config.components = EmptyComponents
    /\ is_some(Config.sdk_version)

(***************************************************************************)
(* C8: once set_current_version(v) has succeeded, current_version()        *)
(* returns v until the next call of it, whatever current.txt and the       *)
(* "current" symlink held before.  Stated as exactly v:                    *)
(***************************************************************************)
SetCurrentStep == last'.op \in {"use", "setup"} /\ last'.status \in {"Ok", "IOError"}

NoSetCurrentStep ==
    \/ last'.op \notin {"use", "setup"}
    \/ last'.status \in {"NotFound", "DownloadError", "FetchError"}

C8_CurrentIsExactlyWhatWasSet ==
    [][/\ SetCurrentStep => current_version(pointer', legacy') = Some(last'.key)
       /\ NoSetCurrentStep =>
              current_version(pointer', legacy') = current_version(pointer, legacy)]_vars

\* C8, with the trimming current_version does: it returns v with its leading
\* and trailing whitespace removed
C8_CurrentIsTrimmedWhatWasSet ==
    [][/\ SetCurrentStep => current_version(pointer', legacy') = Some(trim(last'.key))
       /\ NoSetCurrentStep =>
              current_version(pointer', legacy') = current_version(pointer, legacy)]_vars

C8_Witness ==
    /\ last.op = "use"
    /\ last.status = "Ok"
    /\ is_some(legacy)
    /\ unwrap(legacy) # version_dir(last.key)
    /\ current_version(pointer, legacy) = Some(last.key)

(***************************************************************************)
(* C9: version normalization in setup and use is idempotent, maps "1" and  *)
(* "v1" to "v1", and a successful setup or use persists the normalized     *)
(* argument, itself a fixed point of normalization.                        *)
(***************************************************************************)
C9_NormalizationIdempotent ==
    /\ \A x \in WideVersionArgs \cup LatestTags :
         /\ use_version_normalized(use_version_normalized(x)) = use_version_normalized(x)
         /\ setup_version_normalized(setup_version_normalized(x)) = setup_version_normalized(x)
    /\ use_version_normalized(<<"1">>) = <<"v", "1">>
    /\ use_version_normalized(<<"v", "1">>) = <<"v", "1">>
    /\ setup_version_normalized(<<"1">>) = <<"v", "1">>
    /\ setup_version_normalized(<<"v", "1">>) = <<"v", "1">>
    /\ (last.op = "use" /\ last.status = "Ok") =>
           /\ pointer = Some(use_version_normalized(last.arg))
           /\ use_version_normalized(unwrap(pointer)) = unwrap(pointer)
    /\ (last.op = "setup" /\ last.status = "Ok") =>
           /\ pointer = Some(setup_version_normalized(last.arg))
           /\ setup_version_normalized(unwrap(pointer)) = unwrap(pointer)

C9_Witness ==
    /\ last.op = "use"
    /\ last.status = "Ok"
    /\ last.arg = <<"1">>
    /\ pointer = Some(<<"v", "1">>)

(***************************************************************************)
(* C10: use(v) for a version whose directory does not exist fails with     *)
(* NotFound and leaves current.txt, the symlink and dev.json as they were. *)
(***************************************************************************)
C10_UseNotInstalledChangesNothing ==
    [][(last'.op = "use" /\ use_version_normalized(last'.arg) \notin installed) =>
          /\ last'.status = "NotFound"
          /\ UNCHANGED <<pointer, legacy, devFile, installed>>]_vars

C10_Witness ==
    /\ last.op = "use"
    /\ last.status = "NotFound"
    /\ is_some(pointer)
    /\ is_some(legacy)
    /\ is_some(Config.sdk_version)
    /\ Config.components # EmptyComponents


(***************************************************************************)
(* C4: when two concurrent invocations have both finished, dev.json holds  *)
(* what the one whose write completed last serialized, and nothing else.   *)
(***************************************************************************)
AllDone == \A p \in Procs : pc[p] = "done"

C4_LastWriterWins == AllDone => devFile = Some(buf[lastWriter])

(***************************************************************************)
(* C11: loading a well-formed dev.json and saving it again unchanged (what *)
(* use does when the version is already the recorded one) writes the same  *)
(* bytes the file held, so that doing it twice writes the same bytes       *)
(* twice.                                                                  *)
(***************************************************************************)
C11_SaveLoadByteIdentical ==
    [][(/\ last'.op = "use"
        /\ last'.status = "Ok"
        /\ is_some(devFile)
        /\ load(devFile).ok
        /\ Config.sdk_version = Some(last'.key))
           => devFile' = devFile]_vars

(***************************************************************************)
(* C12: a component linked with an explicit lib, qml or bin next to a hint *)
(* that derives another value for that field stores the explicit value     *)
(* resolved, and the environment composed next has the explicit value on   *)
(* the lib or qml search path (as the host bin directory for "host") and   *)
(* has the derived value there only if another component stores it.        *)
(***************************************************************************)
Entries(joined) == {split(joined, ":")[i] : i \in 1..Len(split(joined, ":"))}

HintPaths == {RootB, RootQ, RootC}

ExplicitOverHint ==
    \A explicit \in {<<"/", "x", "/", "v">>, <<".", "/", "c">>}, hint \in HintPaths :
        /\ link_config(Some(explicit), None, Some(hint), None, None, None).lib
               = resolve(Some(explicit))
        /\ link_config(None, Some(explicit), Some(hint), None, None, None).qml
               = resolve(Some(explicit))
        /\ link_config(None, Some(explicit), None, None, None, Some(hint)).qml
               = resolve(Some(explicit))
        /\ link_config(None, None, None, None, Some(explicit), Some(hint)).bin
               = resolve(Some(explicit))

C12_ExplicitBeatsDerived ==
    [][(/\ last.op = "link" /\ last.status = "Ok"
        /\ last'.op = "env" /\ last'.status = "Ok") =>
          LET a == last.arg
              name == last.key
              env == unwrap(last'.env)
              dp == link_derived_plugin(a.plugin)
              others == DOMAIN Config.components \ {name}
          IN /\ ExplicitOverHint
             /\ (is_some(a.lib) /\ is_some(dp.lib) /\ resolve(a.lib) # dp.lib) =>
                    /\ unwrap(resolve(a.lib)) \in Entries(env.lib_path)
                    /\ unwrap(dp.lib) \in Entries(env.lib_path) =>
                           \E k \in others : Config.components[k].lib = dp.lib
             /\ (is_some(a.qml) /\ is_some(dp.qml) /\ resolve(a.qml) # dp.qml) =>
                    /\ unwrap(resolve(a.qml)) \in Entries(env.qml_path)
                    /\ unwrap(dp.qml) \in Entries(env.qml_path) =>
                           \E k \in others : Config.components[k].qml = dp.qml
             /\ (is_some(a.bin) /\ name = <<"host">>) =>
                    env.host_path = path_join(unwrap(resolve(a.bin)), host_exe)]_vars

C12_Witness ==
    /\ Composed
    /\ <<"orders">> \in DOMAIN Config.components
    /\ Config.components[<<"orders">>].lib = Some(<<"/", "x", "/", "lib">>)
    /\ Config.components[<<"orders">>].plugin = Some(RootB)
    /\ <<"/", "x", "/", "lib">> \in Entries(unwrap(last.env).lib_path)
    /\ link_derived_plugin(Some(RootB)).lib = Some(<<"/", "b", "/", "plugins", "/", "mpf">>)
    /\ <<"/", "b", "/", "plugins", "/", "mpf">> \notin Entries(unwrap(last.env).lib_path)

(***************************************************************************)
(* C13: a successful link_plugin(name, path) stores one entry and changes  *)
(* no other: under name when name starts with "plugin-", under             *)
(* "plugin-"+name otherwise; the entry has mode Source, has lib, qml and   *)
(* plugin, and has neither headers nor bin.                                *)
(***************************************************************************)
C13_LinkPluginEntry ==
    [][(last'.op = "link_plugin" /\ last'.status = "Ok") =>
          LET name == last'.arg
              prefixed == Len(name) >= 1 /\ name[1] = "plugin-"
              key == IF prefixed THEN name ELSE <<"plugin-">> \o name
              before == Config.components
              after == Config'.components
          IN /\ DOMAIN after = DOMAIN before \cup {key}
             /\ \A k \in DOMAIN before \ {key} : after[k] = before[k]
             /\ (<<"plugin-">> \o name) \in DOMAIN after =>
                    (~prefixed \/ (<<"plugin-">> \o name) \in DOMAIN before)
             /\ after[key].mode = "source"
             /\ is_some(after[key].lib)
             /\ is_some(after[key].qml)
             /\ is_some(after[key].plugin)
             /\ is_none(after[key].headers)
             /\ is_none(after[key].bin)]_vars

C13_Witness ==
    /\ last.op = "link_plugin"
    /\ last.status = "Ok"
    /\ last.arg = <<"plugin-", "orders">>
    /\ <<"plugin-", "orders">> \in DOMAIN Config.components
    /\ <<"plugin-", "plugin-", "orders">> \notin DOMAIN Config.components
    /\ Config.components[<<"plugin-", "orders">>].mode = "source"

(***************************************************************************)
(* C14: link_plugin with build root R stores lib = R/plugins/mpf when that *)
(* directory exists and R/plugins otherwise, qml = R/qml whether it exists *)
(* or not, and plugin = R.  Stated with R as it was given:                 *)
(***************************************************************************)
LinkPluginStep == last'.op = "link_plugin" /\ last'.status = "Ok"

PluginEntryUnder(R, entry) ==
    /\ entry.lib = IF path_join(path_join(R, <<"plugins">>), <<"mpf">>) \in BuildOutputs
                   THEN Some(path_join(path_join(R, <<"plugins">>), <<"mpf">>))
                   ELSE Some(path_join(R, <<"plugins">>))
    /\ entry.qml = Some(path_join(R, <<"qml">>))
    /\ entry.plugin = Some(R)

C14_PluginPathsOfGivenRoot ==
    [][LinkPluginStep => PluginEntryUnder(last'.path, Config'.components[last'.key])]_vars

\* C14, with R the build root made absolute against the working directory and
\* normalized: lib = R/plugins/mpf when that directory exists and R/plugins
\* otherwise, qml = R/qml whether it exists or not, plugin = R
C14_PluginPathsOfResolvedRoot ==
    [][LinkPluginStep =>
          /\ PluginEntryUnder(normalize_path(absolute(last'.path)),
                              Config'.components[last'.key])
          /\ last'.path = RootB =>
                 Config'.components[last'.key].lib
                     = Some(<<"/", "b", "/", "plugins", "/", "mpf">>)
          /\ last'.path = RootC =>
                 /\ Config'.components[last'.key].lib
                        = Some(<<"/", "w", "/", "c", "/", "plugins">>)
                 /\ Config'.components[last'.key].qml
                        = Some(<<"/", "w", "/", "c", "/", "qml">>)
                 /\ Config'.components[last'.key].plugin = Some(<<"/", "w", "/", "c">>)]_vars

C14_Witness ==
    /\ last.op = "link_plugin"
    /\ last.status = "Ok"
    /\ last.path = RootC
    /\ Config.components[last.key].lib = Some(<<"/", "w", "/", "c", "/", "plugins">>)
    /\ \E k \in DOMAIN Config.components :
         Config.components[k].lib = Some(<<"/", "b", "/", "plugins", "/", "mpf">>)

(***************************************************************************)
(* C15: in every composed environment the plugin-discovery path is made of *)
(* the lib paths of the Source-mode components other than "host" and       *)
(* "sdk", one entry each, in some iteration order of the map; it has no    *)
(* SDK entry, has a lib of "host" or "sdk" only where another component    *)
(* stores the same path, and is empty when no such component has a lib.    *)
(***************************************************************************)
PluginLibKeys ==
    {k \in DOMAIN Config.components :
        /\ Config.components[k].mode = "source"
        /\ k \notin {<<"host">>, <<"sdk">>}
        /\ is_some(Config.components[k].lib)}

C15_MpfPluginPath ==
    Composed =>
        LET env == unwrap(last.env)
            comps == Config.components
        IN /\ PluginLibKeys = {} => env.mpf_plugin_path = <<>>
           /\ PluginLibKeys # {} =>
                  /\ \E order \in IterationOrders(PluginLibKeys) :
                         split(env.mpf_plugin_path, ":")
                             = [i \in 1..Len(order) |-> unwrap(comps[order[i]].lib)]
                  /\ path_join(env.sdk_root, <<"lib">>) \notin Entries(env.mpf_plugin_path)
                  /\ \A k \in DOMAIN comps \cap {<<"host">>, <<"sdk">>} :
                         (is_some(comps[k].lib)
                             /\ unwrap(comps[k].lib) \in Entries(env.mpf_plugin_path))
                            => \E j \in PluginLibKeys : comps[j].lib = comps[k].lib

C15_Witness ==
    /\ Composed
    /\ PluginLibKeys # {}
    /\ \E k \in DOMAIN Config.components \cap {<<"host">>, <<"sdk">>} :
         /\ is_some(Config.components[k].lib)
         /\ unwrap(Config.components[k].lib) \notin Entries(unwrap(last.env).mpf_plugin_path)
         /\ unwrap(Config.components[k].lib) \in Entries(unwrap(last.env).lib_path)

(***************************************************************************)
(* C16: in every composed environment the host executable is               *)
(* <bin>/mpf-host when the component "host" is in Source mode and has a    *)
(* bin, and <sdk>/bin/mpf-host otherwise, whatever bin other components    *)
(* store.                                                                  *)
(***************************************************************************)
C16_HostExecutablePath ==
    Composed =>
        LET env == unwrap(last.env)
            comps == Config.components
            linked_host == /\ <<"host">> \in DOMAIN comps
                           /\ comps[<<"host">>].mode = "source"
                           /\ is_some(comps[<<"host">>].bin)
        IN /\ linked_host =>
                  env.host_path = unwrap(comps[<<"host">>].bin) \o <<"/", "mpf-host">>
           /\ ~linked_host =>
                  env.host_path = env.sdk_root \o <<"/", "bin", "/", "mpf-host">>

C16_Witness ==
    /\ Composed
    /\ \E k \in DOMAIN Config.components \ {<<"host">>} : is_some(Config.components[k].bin)
    /\ <<"host">> \in DOMAIN Config.components
    /\ is_none(Config.components[<<"host">>].bin)
    /\ unwrap(last.env).host_path = <<"~", "/", ".mpf-sdk", "/", "v", "1", "/", "bin", "/", "mpf-host">>

(***************************************************************************)
(* C17: after any sequence of setup and use, a version recorded in         *)
(* current.txt and a version recorded as sdk_version in dev.json start     *)
(* with the marker "v".                                                    *)
(***************************************************************************)
C17_PersistedVersionsPrefixed ==
    /\ (is_some(pointer) /\ unwrap(pointer) # <<>>) => Head(unwrap(pointer)) = "v"
    /\ (load(devFile).ok /\ is_some(Config.sdk_version)) =>
           /\ unwrap(Config.sdk_version) # <<>>
           /\ Head(unwrap(Config.sdk_version)) = "v"

C17_Witness ==
    /\ last.op = "setup"
    /\ last.arg = <<"2">>
    /\ last.status = "Ok"
    /\ pointer = Some(<<"v", "2">>)
    /\ Config.sdk_version = Some(<<"v", "2">>)

(***************************************************************************)
(* C18: two compositions in a row, over the same dev.json and the same     *)
(* current version, give the same lib, qml, plugin and plugin-discovery    *)
(* search paths, entries of different components in the same order.        *)
(***************************************************************************)
C18_ComposedOrderDeterministic ==
    [][(/\ last.op = "env" /\ last.status = "Ok"
        /\ last'.op = "env" /\ last'.status = "Ok") =>
          /\ unwrap(last'.env).lib_path = unwrap(last.env).lib_path
          /\ unwrap(last'.env).qml_path = unwrap(last.env).qml_path
          /\ unwrap(last'.env).plugin_path = unwrap(last.env).plugin_path
          /\ unwrap(last'.env).mpf_plugin_path = unwrap(last.env).mpf_plugin_path]_vars

(***************************************************************************)
(* C19: unlink(n) with n other than "all", when dev.json loads and neither *)
(* n nor "plugin-"+n is a key of the mapping, ends Ok, removes nothing and *)
(* leaves dev.json as it is (absent if it was absent).                     *)
(***************************************************************************)
C19_UnlinkNothingLinked ==
    [][(/\ last'.op = "unlink"
        /\ last'.arg # <<"all">>
        /\ load(devFile).ok
        /\ last'.arg \notin DOMAIN Config.components
        /\ (<<"plugin-">> \o last'.arg) \notin DOMAIN Config.components) =>
          /\ last'.status = "Ok"
          /\ last'.count = 0
          /\ devFile' = devFile
          /\ UNCHANGED <<installed, pointer, legacy>>]_vars

C19_Witness ==
    /\ last.op = "unlink"
    /\ last.status = "Ok"
    /\ last.arg = <<"orders">>
    /\ last.key = <<>>
    /\ DOMAIN Config.components = {<<"host">>, <<"all">>}

(***************************************************************************)
(* C20: current_version() is the content of current.txt without leading    *)
(* and trailing whitespace when the file exists and that is not empty; is  *)
(* unset when the file exists and is empty, whatever the "current" symlink *)
(* points at; is the last segment of the symlink's target when the file is *)
(* absent and the symlink exists; and is unset when both are absent.       *)
(***************************************************************************)
LastSegment(p) ==
    LET slashes == {i \in 1..Len(p) : p[i] = "/"}
        from == IF slashes = {} THEN 1
                ELSE 1 + CHOOSE i \in slashes : \A j \in slashes : j <= i
    IN SubSeq(p, from, Len(p))

Blank(s) == \A i \in 1..Len(s) : s[i] = " "

Stripped(s) ==
    LET solid == {i \in 1..Len(s) : s[i] # " "}
        first == CHOOSE i \in solid : \A j \in solid : i <= j
        final == CHOOSE i \in solid : \A j \in solid : j <= i
    IN SubSeq(s, first, final)

C20_CurrentVersionCases ==
    LET current == current_version(pointer, legacy)
    IN /\ (is_some(pointer) /\ ~Blank(unwrap(pointer))) =>
              current = Some(Stripped(unwrap(pointer)))
       /\ (is_some(pointer) /\ Blank(unwrap(pointer))) => current = None
       /\ (is_none(pointer) /\ is_some(legacy)) =>
              current = Some(LastSegment(unwrap(legacy)))
       /\ (is_none(pointer) /\ is_none(legacy)) => current = None

C20_Witness ==
    /\ pointer = Some(<<>>)
    /\ legacy = Some(<<"~", "/", ".mpf-sdk", "/", "v", "1">>)
    /\ current_version(pointer, legacy) = None
    /\ last.op = "env"

(***************************************************************************)
(* C21: setup(v) of a version whose directory exists downloads nothing and *)
(* does not stop there: when its writes succeed it ends with current.txt   *)
(* and sdk_version both holding v normalized.  For a version whose         *)
(* directory does not exist, the pointer is touched only once the download *)
(* and extraction have succeeded.                                          *)
(***************************************************************************)
NormalizedVersion(v) == IF v # <<>> /\ Head(v) = "v" THEN v ELSE <<"v">> \o v

SetupStep == last'.op = "setup" /\ last'.status # "FetchError"

C21_SetupAlreadyInstalled ==
    [][SetupStep =>
          LET v == NormalizedVersion(last'.arg)
          IN /\ v \in installed =>
                   /\ last'.count = 0
                   /\ installed' = installed
                   /\ last'.status \in {"Ok", "IOError", "PointerIOError"}
                   /\ last'.status = "Ok" =>
                          /\ pointer' = Some(v)
                          /\ load(devFile').ok
                          /\ Config'.sdk_version = Some(v)
             /\ v \notin installed =>
                   /\ last'.count = 1
                   /\ last'.status = "DownloadError" =>
                          UNCHANGED <<pointer, legacy, devFile>>
                   /\ last'.status # "DownloadError" => v \in installed']_vars

C21_Witness ==
    /\ last.op = "setup"
    /\ last.status = "Ok"
    /\ last.count = 0
    /\ last.arg = <<"1">>
    /\ pointer = Some(<<"v", "1">>)
    /\ Config.sdk_version = Some(<<"v", "1">>)

(***************************************************************************)
(* C22: link stores, for each of lib, qml and bin on its own, the explicit *)
(* value if given, else the value derived from the host root, else the one *)
(* derived from the plugin root; plugin and headers are stored only from   *)
(* their explicit values.                                                  *)
(***************************************************************************)
FirstOf(a, b, c) == IF a # <<>> THEN a ELSE IF b # <<>> THEN b ELSE c

C22_LinkPrecedencePerField ==
    [][(last'.op = "link" /\ last'.status = "Ok") =>
          LET a == last'.arg
              stored == Config'.components[last'.key]
              from_plugin == link_derived_plugin(a.plugin)
              from_host == link_derived_host(a.host)
          IN /\ stored.lib = FirstOf(resolve(a.lib), <<>>, from_plugin.lib)
             /\ stored.qml = FirstOf(resolve(a.qml), from_host.qml, from_plugin.qml)
             /\ stored.bin = FirstOf(resolve(a.bin), from_host.bin, <<>>)
             /\ stored.plugin = resolve(a.plugin)
             /\ stored.headers = resolve(a.headers)
             /\ (a.lib = Some(<<"/", "x", "/", "lib">>) /\ a.plugin = Some(RootB)) =>
                    /\ stored.lib = Some(<<"/", "x", "/", "lib">>)
                    /\ stored.qml = Some(<<"/", "b", "/", "qml">>)
             /\ (a.host = Some(RootQ) /\ a.plugin = Some(RootB) /\ a.qml = None) =>
                    /\ stored.qml = Some(<<"/", "q">>)
                    /\ stored.lib = Some(<<"/", "b", "/", "plugins", "/", "mpf">>)
                    /\ stored.bin = Some(<<"/", "q">>)
             /\ (a.plugin = None /\ a.host = Some(RootB)) =>
                    /\ stored.plugin = None
                    /\ stored.lib = None
                    /\ stored.bin = Some(<<"/", "x", "/", "bin">>)]_vars

C22_Witness ==
    /\ last.op = "link"
    /\ last.status = "Ok"
    /\ last.arg.host = Some(RootQ)
    /\ last.arg.plugin = Some(RootB)
    /\ Config.components[last.key].qml = Some(<<"/", "q">>)
    /\ Config.components[last.key].plugin = Some(<<"/", "b">>)

(***************************************************************************)
(* C23: link_host with build root R stores under "host", with mode Source  *)
(* and no lib, bin = R/bin when R/bin holds mpf-host, else R when R holds  *)
(* it, else R/bin; and qml = R/qml when that directory exists, else R.     *)
(* Stated with R as it was given:                                          *)
(***************************************************************************)
LinkHostStep == last'.op = "link_host" /\ last'.status = "Ok"

HostEntryUnder(R, entry) ==
    /\ entry.mode = "source"
    /\ entry.lib = None
    /\ entry.bin =
         IF (R \o <<"/", "bin", "/", "mpf-host">>) \in BuildOutputs
         THEN Some(R \o <<"/", "bin">>)
         ELSE IF (R \o <<"/", "mpf-host">>) \in BuildOutputs
              THEN Some(R)
              ELSE Some(R \o <<"/", "bin">>)
    /\ entry.qml = IF (R \o <<"/", "qml">>) \in BuildOutputs
                   THEN Some(R \o <<"/", "qml">>)
                   ELSE Some(R)

C23_HostPathsOfGivenRoot ==
    [][LinkHostStep =>
          /\ last'.key = <<"host">>
          /\ HostEntryUnder(last'.path, Config'.components[<<"host">>])]_vars

\* C23, with R the build root made absolute against the working directory and
\* normalized: under "host", mode Source, no lib, bin = R/bin when R/bin holds
\* mpf-host, else R when R holds it, else R/bin; qml = R/qml when it exists, else R
C23_HostPathsOfResolvedRoot ==
    [][LinkHostStep =>
          LET entry == Config'.components[<<"host">>]
          IN /\ last'.key = <<"host">>
             /\ HostEntryUnder(normalize_path(absolute(last'.path)), entry)
             /\ entry.plugin = None
             /\ entry.headers = None
             /\ last'.path = RootB =>
                    /\ entry.bin = Some(<<"/", "b", "/", "bin">>)
                    /\ entry.qml = Some(<<"/", "b", "/", "qml">>)
             /\ last'.path = RootQ =>
                    /\ entry.bin = Some(<<"/", "q">>)
                    /\ entry.qml = Some(<<"/", "q">>)
             /\ last'.path = RootC =>
                    /\ entry.bin = Some(<<"/", "w", "/", "c", "/", "bin">>)
                    /\ entry.qml = Some(<<"/", "w", "/", "c">>)]_vars

C23_Witness ==
    /\ last.op = "link_host"
    /\ last.status = "Ok"
    /\ last.path = RootQ
    /\ Config.components[<<"host">>].bin = Some(<<"/", "q">>)
    /\ Config.components[<<"host">>].qml = Some(<<"/", "q">>)

(***************************************************************************)
(* C24: when dev.json exists but is malformed, composing the environment   *)
(* surfaces a ParseError instead of composing as if nothing were linked.   *)
(***************************************************************************)
C24_MalformedSurfacesParseError ==
    (last.op = "env" /\ Malformed(devFile)) => last.status = "ParseError"

(***************************************************************************)
(* C25: with a well-formed (or absent) dev.json every operation changes    *)
(* only its own part of the persisted state.  The link operations and      *)
(* unlink leave the pointer, the legacy link, the version directories and  *)
(* sdk_version alone and, unlink("all") apart, every entry other than the  *)
(* key they target; setup and use leave the component mapping alone and    *)
(* add at most the directory of the version they name; env, status and     *)
(* versions change nothing.  A save cut short by an I/O error destroys the *)
(* file, so what is said of dev.json is said of operations whose save      *)
(* completes.                                                              *)
(***************************************************************************)
LinkOps == {"link_plugin", "link_host", "link_component", "link", "unlink"}

OtherEntriesUnchanged(key) ==
    \A k \in ((DOMAIN Config.components) \cup (DOMAIN Config'.components)) \ {key} :
        /\ k \in DOMAIN Config.components
        /\ k \in DOMAIN Config'.components
        /\ Config'.components[k] = Config.components[k]

C25_FrameEffects ==
    [][~Malformed(devFile) =>
          /\ last'.op \in LinkOps =>
                /\ pointer' = pointer
                /\ legacy' = legacy
                /\ installed' = installed
                /\ last'.status # "IOError" =>
                      /\ Config'.sdk_version = Config.sdk_version
                      /\ ~(last'.op = "unlink" /\ last'.arg = <<"all">>) =>
                            OtherEntriesUnchanged(last'.key)
          /\ last'.op \in {"setup", "use"} =>
                /\ installed \subseteq installed'
                /\ installed' \ installed \subseteq {last'.key}
                /\ last'.status # "IOError" => Config'.components = Config.components
          /\ last'.op \in {"env", "status", "versions"} =>
                UNCHANGED <<installed, pointer, legacy, devFile>>]_vars

C25_Witness ==
    /\ last.op = "link_component"
    /\ last.status = "Ok"
    /\ Cardinality(DOMAIN Config.components) = 2
    /\ is_some(pointer)
    /\ Config.sdk_version = pointer

(***************************************************************************)
(* C26: a setup that fails during download or extraction leaves the       *)
(* pointer and dev.json unchanged and the version's directory absent, so   *)
(* the version is not treated as installed afterwards.                     *)
(***************************************************************************)
C26_FailedSetupLeavesNoVersionDir ==
    [][(last'.op = "setup" /\ last'.status = "DownloadError") =>
          /\ pointer' = pointer
          /\ legacy' = legacy
          /\ devFile' = devFile
          /\ ~version_dir_exists(last'.key, installed')]_vars

(***************************************************************************)
(* C27: link_plugin(n, root) followed by unlink(n) removes the entry the   *)
(* link stored ("plugin-" + n) and leaves every other entry as it was      *)
(* before the link.  Two steps: the link leaves the other entries as they  *)
(* were, and the unlink that follows removes exactly the linked key.       *)
(* Stated for every n:                                                     *)
(***************************************************************************)
LinkPluginKeepsOthers ==
    LinkPluginStep =>
        /\ DOMAIN Config'.components = (DOMAIN Config.components) \cup {last'.key}
        /\ \A k \in (DOMAIN Config.components) \ {last'.key} :
              Config'.components[k] = Config.components[k]

UnlinkAfterLinkPlugin ==
    /\ last.op = "link_plugin"
    /\ last.status = "Ok"
    /\ last'.op = "unlink"
    /\ last'.status = "Ok"
    /\ last'.arg = last.arg

UnlinkRemovesLinkedKey ==
    /\ DOMAIN Config'.components = (DOMAIN Config.components) \ {last.key}
    /\ \A k \in DOMAIN Config'.components :
          Config'.components[k] = Config.components[k]

C27_LinkPluginThenUnlink ==
    [][/\ LinkPluginKeepsOthers
       /\ UnlinkAfterLinkPlugin => UnlinkRemovesLinkedKey]_vars

\* C27, for n other than "all" and with no entry keyed exactly n besides the
\* linked one: link_plugin(n, root) followed by unlink(n) removes the entry the
\* link stored and leaves every other entry as it was before the link
C27_LinkPluginThenUnlinkByPrefix ==
    [][/\ LinkPluginKeepsOthers
       /\ (/\ UnlinkAfterLinkPlugin
           /\ last.arg # <<"all">>
           /\ (last.arg = last.key \/ last.arg \notin DOMAIN Config.components))
             => UnlinkRemovesLinkedKey]_vars

C27_Witness ==
    /\ last.op = "unlink"
    /\ last.status = "Ok"
    /\ last.arg = <<"orders">>
    /\ last.key = <<"plugin-", "orders">>
    /\ DOMAIN Config.components = {<<"host">>}

(***************************************************************************)
(* C28: the operations are idempotent.  A successful use, link_plugin,     *)
(* link_host, link_component, link or unlink applied a second time with    *)
(* the same arguments leaves the pointer and the content of dev.json as    *)
(* the first application left them; a link replaces the whole entry under  *)
(* its key (a field it is not given is absent afterwards, whatever the     *)
(* previous entry held).  Stated for every unlink:                         *)
(***************************************************************************)
SameCallAgain ==
    /\ last'.op \in LinkOps \cup {"use"}
    /\ last'.op = last.op
    /\ last'.arg = last.arg
    /\ last'.path = last.path
    /\ last'.op = "link" => last'.key = last.key
    /\ last.status = "Ok"
    /\ last'.status = "Ok"

PersistedUnchanged ==
    /\ pointer' = pointer
    /\ installed' = installed
    /\ ~Malformed(devFile')
    /\ Config' = Config

LinkReplacesEntry ==
    (last'.op = "link" /\ last'.status = "Ok" /\ last'.arg.plugin = None) =>
        LET entry == Config'.components[last'.key]
        IN /\ last'.arg.lib = None => entry.lib = None
           /\ last'.arg.qml = None => entry.qml = None
           /\ last'.arg.headers = None => entry.headers = None
           /\ last'.arg.bin = None => entry.bin = None
           /\ entry.plugin = None

C28_Idempotent ==
    [][/\ SameCallAgain => PersistedUnchanged
       /\ LinkReplacesEntry]_vars

\* C28, with unlink(n) repeated changing nothing unless an entry "plugin-" + n
\* is still linked after the first (which then removed the entry keyed n)
C28_IdempotentUnlessPrefixedRemains ==
    [][/\ (/\ SameCallAgain
           /\ last'.op = "unlink" =>
                 (PluginPrefix \o last'.arg) \notin DOMAIN Config.components)
             => PersistedUnchanged
       /\ LinkReplacesEntry]_vars

C28_Witness ==
    /\ last.op = "link"
    /\ last.status = "Ok"
    /\ last.key = <<"host">>
    /\ Config.components[<<"host">>].qml = None
    /\ is_some(Config.components[<<"host">>].bin)
    /\ <<"orders">> \in DOMAIN Config.components
    /\ Config.sdk_version = pointer
    /\ is_some(pointer)

(***************************************************************************)
(* C29: invoked one at a time from a state with no pointer and no          *)
(* dev.json, every setup or use that completes leaves sdk_version equal to *)
(* the pointer (both the normalized version); a successful link or unlink  *)
(* taken when they are equal leaves them equal; and a setup or use that    *)
(* fails while saving dev.json has already changed the pointer.            *)
(***************************************************************************)
VersionOps == {"setup", "use"}

C29_SdkVersionFollowsPointer ==
    [][/\ (last'.op \in VersionOps /\ last'.status = "Ok") =>
             /\ pointer' = Some(last'.key)
             /\ ~Malformed(devFile')
             /\ Config'.sdk_version = pointer'
       /\ (/\ last'.op \in LinkOps
           /\ last'.status = "Ok"
           /\ ~Malformed(devFile)
           /\ Config.sdk_version = pointer) =>
             /\ ~Malformed(devFile')
             /\ Config'.sdk_version = pointer'
       /\ (last'.op \in VersionOps /\ last'.status = "IOError") =>
             pointer' = Some(last'.key)]_vars

C29_Witness ==
    /\ last.op = "unlink"
    /\ last.status = "Ok"
    /\ last.count = 1
    /\ is_some(pointer)
    /\ Config.sdk_version = pointer

====
